---- MODULE Spec2Model ----
(***************************************************************************)
(* Model of scripts/make_town_year_agg.py: a chunked read of the sales     *)
(* CSV, tidy_chunk per chunk (coercion, Year, string clean-up, dropna,     *)
(* first groupby), the global re-aggregation, and the three exports.       *)
(*                                                                         *)
(* Text is a sequence of Unicode code points (so that "Condo" is           *)
(* <<67,111,110,100,111>>); Python compares and sorts str by code point.   *)
(* A column value is an optional: NA == <<>> is pandas' missing value      *)
(* (NaN / NaT / <NA>), <<v>> a present value v.  Decimals are exact        *)
(* fractions <<n, d>>.  The library semantics are those of pandas 1.x/2.x  *)
(* with object-dtype strings, where astype(str) renders NaN as "nan".      *)
(***************************************************************************)
EXTENDS Integers, Sequences, FiniteSets, TLC

\* ------------------------------------------------------------------ bounds
MaxRows == 2      \* rows of the input file, key/cleaning and export runs
MaxRowsAmt == 4   \* rows of the input file, Sale Amount runs
MaxLen == 3       \* length of a Town text, normalisation runs

\* ------------------------------------------------------------- optionals
NA == <<>>
Some(x) == <<x>>

Min(a, b) == IF a < b THEN a ELSE b

\* ----------------------------------------------------------------- text
\* Python str comparison: lexicographic by code point.
StrLess(a, b) ==
    \E i \in 1..(Min(Len(a), Len(b)) + 1) :
        /\ \A j \in 1..(i - 1) : a[j] = b[j]
        /\ \/ (i > Len(a) /\ i <= Len(b))
           \/ (i <= Len(a) /\ i <= Len(b) /\ a[i] < b[i])

\* str.isspace for the code points of the model's texts (ASCII white space,
\* the separators 28..31, NEL and NBSP).
IsSpace(c) == c \in ((9..13) \cup (28..32) \cup {133, 160})

IsDigit(c) == c \in 48..57
IsUpper(c) == c \in 65..90
IsLower(c) == c \in 97..122

\* Mutation: only lower-case letters count as cased.
IsCased_lower_only(c) == IsLower(c) \/ c = 496

\* Py_UNICODE_ISCASED on ASCII plus U+01F0 (LATIN SMALL LETTER J WITH CARON);
\* U+030C (COMBINING CARON, 780) is not cased.
IsCased(c) == IsUpper(c) \/ IsLower(c) \/ c = 496

\* _PyUnicode_ToTitleFull: U+01F0 has the special casing <U+004A, U+030C>.
ToTitleFull(c) ==
    IF IsLower(c) THEN <<c - 32>>
    ELSE IF c = 496 THEN <<74, 780>>
    ELSE <<c>>

\* _PyUnicode_ToLowerFull.
ToLowerFull(c) == IF IsUpper(c) THEN <<c + 32>> ELSE <<c>>

RECURSIVE do_title(_, _)
\* str.title (unicodeobject.c do_title): a character after a cased one is
\* lower-cased, any other is title-cased.
do_title(s, previous_is_cased) ==
    IF s = <<>> THEN <<>>
    ELSE (IF previous_is_cased THEN ToLowerFull(Head(s)) ELSE ToTitleFull(Head(s)))
         \o do_title(Tail(s), IsCased(Head(s)))

str_title(s) == do_title(s, FALSE)

RECURSIVE lstrip(_)
lstrip(s) == IF s # <<>> /\ IsSpace(Head(s)) THEN lstrip(Tail(s)) ELSE s

RECURSIVE rstrip(_)
rstrip(s) ==
    IF s # <<>> /\ IsSpace(s[Len(s)]) THEN rstrip(SubSeq(s, 1, Len(s) - 1)) ELSE s

\* str.strip() without arguments.
str_strip(s) == rstrip(lstrip(s))

\* Series.astype(str) on an object column: NaN becomes the text "nan".
astype_str(v) == IF v = NA THEN Some(<<110, 97, 110>>) ELSE v

\* Series.str.strip() and Series.str.title(): the present values are mapped,
\* the missing ones stay missing.
col_strip(v) == IF v = NA THEN NA ELSE Some(str_strip(v[1]))
col_title(v) == IF v = NA THEN NA ELSE Some(str_title(v[1]))

\* Line 39: df["Town"].astype(str).str.strip().str.title()
NormalizeTown(v) == col_title(col_strip(astype_str(v)))

\* Lines 40-41: .astype(str).str.strip()
NormalizeType(v) == col_strip(astype_str(v))

\* --------------------------------------------------------------- numbers
RECURSIVE ParseNat(_)
ParseNat(s) == IF s = <<>> THEN 0 ELSE 10 * ParseNat(SubSeq(s, 1, Len(s) - 1)) + (s[Len(s)] - 48)

IsDigits(s) == s # <<>> /\ \A i \in 1..Len(s) : IsDigit(s[i])

\* pd.to_numeric(errors="coerce") on the cells of the model: an unsigned
\* decimal integer parses, any other text and a missing cell give NaN.
to_numeric(v) == IF v # NA /\ IsDigits(v[1]) THEN Some(ParseNat(v[1])) ELSE NA

IsLeap(y) == (y % 4 = 0 /\ y % 100 # 0) \/ y % 400 = 0

DaysInMonth(m, y) ==
    IF m = 2 THEN (IF IsLeap(y) THEN 29 ELSE 28)
    ELSE IF m \in {4, 6, 9, 11} THEN 30 ELSE 31

\* pd.to_datetime(errors="coerce").dt.year on the cells of the model: a valid
\* MM/DD/YYYY date gives its year, any other text and a missing cell give NaT.
to_datetime_year(v) ==
    IF v = NA THEN NA
    ELSE LET s == v[1] IN
         IF /\ Len(s) = 10
            /\ s[3] = 47 /\ s[6] = 47
            /\ \A i \in {1, 2, 4, 5, 7, 8, 9, 10} : IsDigit(s[i])
         THEN LET m == ParseNat(SubSeq(s, 1, 2))
                  d == ParseNat(SubSeq(s, 4, 5))
                  y == ParseNat(SubSeq(s, 7, 10))
              IN  IF m \in 1..12 /\ d >= 1 /\ d <= DaysInMonth(m, y) /\ y >= 1
                  THEN Some(y) ELSE NA
         ELSE NA

\* Mutation: List Year is preferred and Date Recorded is the fallback.
fillna_reversed(a, b) == IF b = NA THEN a ELSE b

\* Series.fillna(other): the other's value where this one is missing.
fillna(a, b) == IF a = NA THEN b ELSE a

\* ------------------------------------------------------------- fractions
RECURSIVE GCD(_, _)
GCD(a, b) == IF b = 0 THEN a ELSE GCD(b, a % b)

Abs(x) == IF x < 0 THEN -x ELSE x

Frac(n, d) == LET g == GCD(Abs(n), d) IN <<n \div g, d \div g>>

FAdd(p, q) == Frac(p[1] * q[2] + q[1] * p[2], p[2] * q[2])
FDiv(p, k) == Frac(p[1], p[2] * k)
FLess(p, q) == p[1] * q[2] < q[1] * p[2]

RECURSIVE FSum(_)
FSum(s) == IF s = <<>> THEN <<0, 1>> ELSE FAdd(Head(s), FSum(Tail(s)))

RECURSIVE FInsert(_, _)
FInsert(x, s) ==
    IF s = <<>> THEN <<x>>
    ELSE IF FLess(x, Head(s)) THEN <<x>> \o s
    ELSE <<Head(s)>> \o FInsert(x, Tail(s))

RECURSIVE FSort(_)
FSort(s) == IF s = <<>> THEN <<>> ELSE FInsert(Head(s), FSort(Tail(s)))

\* The present values of a column, in order.
Present(col) ==
    LET keep == SelectSeq(col, LAMBDA v : v # NA)
    IN  [i \in 1..Len(keep) |-> keep[i][1]]

\* The "count" aggregation: the number of non-missing values.
agg_count(col) == Len(Present(col))

\* Mutation: the lower of the two middle values when the count is even.
agg_median_lower(col) ==
    LET s == FSort(Present(col))
        n == Len(s)
    IN  IF n = 0 THEN NA ELSE Some(s[(n + 1) \div 2])

\* The "median" aggregation: missing values are skipped; NaN when none is left.
agg_median(col) ==
    LET s == FSort(Present(col))
        n == Len(s)
    IN  IF n = 0 THEN NA
        ELSE IF n % 2 = 1 THEN Some(s[(n + 1) \div 2])
        ELSE Some(FDiv(FAdd(s[n \div 2], s[n \div 2 + 1]), 2))

\* The "mean" aggregation: missing values are skipped; NaN when none is left.
agg_mean(col) ==
    LET s == Present(col)
    IN  IF s = <<>> THEN NA ELSE Some(FDiv(FSum(s), Len(s)))

RECURSIVE IntSum(_)
IntSum(s) == IF s = <<>> THEN 0 ELSE Head(s) + IntSum(Tail(s))

\* Mutation: the partial counts are counted, not added.
agg_sum_as_count(col) == Len(col)

\* The "sum" aggregation of the (never missing) partial counts.
agg_sum(col) == IntSum(col)

\* ------------------------------------------------------------------ keys
KeyOf(r) == <<r.Town, r.Year, r.PropertyType, r.ResidentialType>>

HasNAKey(r) == \E i \in 1..4 : KeyOf(r)[i] = NA

\* Order of one key component; a missing value sorts last.
OptLess(a, b, isText) ==
    IF a = NA THEN FALSE
    ELSE IF b = NA THEN TRUE
    ELSE IF isText THEN StrLess(a[1], b[1]) ELSE a[1] < b[1]

\* Lexicographic order on the first n components of (Town, Year, Property
\* Type, Residential Type).
KeyLessN(k, l, n) ==
    \E i \in 1..n :
        /\ \A j \in 1..(i - 1) : k[j] = l[j]
        /\ OptLess(k[i], l[i], i # 2)

KeyLess(k, l) == KeyLessN(k, l, 4)

RECURSIVE SortKeys(_)
SortKeys(S) ==
    IF S = {} THEN <<>>
    ELSE LET m == CHOOSE x \in S : \A y \in S : ~KeyLess(y, x)
         IN  <<m>> \o SortKeys(S \ {m})

\* ------------------------------------------------------------- read_csv
\* Text cells that pandas.read_csv reads as missing (its default na_values
\* that can occur in the model's texts).
NA_VALUES ==
    { <<>>,                          \* ""
      <<78, 65>>,                    \* "NA"
      <<78, 47, 65>>,                \* "N/A"
      <<110, 47, 97>>,               \* "n/a"
      <<78, 97, 78>>,                \* "NaN"
      <<110, 97, 110>>,              \* "nan"
      <<78, 111, 110, 101>>,         \* "None"
      <<78, 85, 76, 76>>,            \* "NULL"
      <<110, 117, 108, 108>> }       \* "null"

read_cell(text) == IF text \in NA_VALUES THEN NA ELSE Some(text)

\* One parsed row of the file (USECOLS without the unused Serial Number).
read_row(raw) ==
    [ Town |-> read_cell(raw.Town),
      DateRecorded |-> read_cell(raw.DateRecorded),
      ListYear |-> read_cell(raw.ListYear),
      SaleAmount |-> read_cell(raw.SaleAmount),
      SalesRatio |-> read_cell(raw.SalesRatio),
      PropertyType |-> read_cell(raw.PropertyType),
      ResidentialType |-> read_cell(raw.ResidentialType) ]

\* read_csv(chunksize=n): the rows after the first pos rows, at most n.
read_chunk(file, pos, n) ==
    LET last == Min(pos + n, Len(file))
    IN  [i \in 1..(last - pos) |-> read_row(file[pos + i])]

\* ----------------------------------------------------------- tidy_chunk
ToFrac(v) == IF v = NA THEN NA ELSE Some(<<v[1], 1>>)

\* Lines 29-41: the columns of one row after coercion and clean-up.
tidy_row(r) ==
    [ Town |-> NormalizeTown(r.Town),
      Year |-> fillna(to_datetime_year(r.DateRecorded), to_numeric(r.ListYear)),
      PropertyType |-> NormalizeType(r.PropertyType),
      ResidentialType |-> NormalizeType(r.ResidentialType),
      SaleAmount |-> ToFrac(to_numeric(r.SaleAmount)),
      SalesRatio |-> ToFrac(to_numeric(r.SalesRatio)) ]

\* Mutation: Sale Amount is left out of the subset.
dropna_without_amount(df) ==
    SelectSeq(df, LAMBDA r : r.Town # NA /\ r.Year # NA)

\* Line 43: df.dropna(subset=["Town", "Year", "Sale Amount"])
dropna(df) ==
    SelectSeq(df, LAMBDA r : r.Town # NA /\ r.Year # NA /\ r.SaleAmount # NA)

\* Lines 46-54: groupby(keys, dropna=False).agg(...).reset_index(); the groups
\* come out in key order.
groupby_rows(df) ==
    LET ks == SortKeys({KeyOf(df[i]) : i \in 1..Len(df)})
    IN  [ i \in 1..Len(ks) |->
            LET grp == SelectSeq(df, LAMBDA r : KeyOf(r) = ks[i])
            IN  [ Town |-> ks[i][1], Year |-> ks[i][2],
                  PropertyType |-> ks[i][3], ResidentialType |-> ks[i][4],
                  NumSales |-> agg_count([j \in 1..Len(grp) |-> grp[j].SaleAmount]),
                  MedianSale |-> agg_median([j \in 1..Len(grp) |-> grp[j].SaleAmount]),
                  AvgSalesRatio |-> agg_mean([j \in 1..Len(grp) |-> grp[j].SalesRatio]) ] ]

\* Lines 28-55.
tidy_chunk(df) == groupby_rows(dropna([i \in 1..Len(df) |-> tidy_row(df[i])]))

\* --------------------------------------------------------------- stage 2
RECURSIVE concat(_)
concat(frames) == IF frames = <<>> THEN <<>> ELSE Head(frames) \o concat(Tail(frames))

RECURSIVE InsertRecord(_, _)
InsertRecord(x, s) ==
    IF s = <<>> THEN <<x>>
    ELSE IF KeyLess(KeyOf(x), KeyOf(Head(s))) THEN <<x>> \o s
    ELSE <<Head(s)>> \o InsertRecord(x, Tail(s))

RECURSIVE sort_values_descending(_)
\* Mutation: ascending=False.
sort_values_descending(df) ==
    IF df = <<>> THEN <<>>
    ELSE LET rest == sort_values_descending(Tail(df))
             before == SelectSeq(rest, LAMBDA r : ~KeyLess(KeyOf(r), KeyOf(Head(df))))
             after == SelectSeq(rest, LAMBDA r : KeyLess(KeyOf(r), KeyOf(Head(df))))
         IN  before \o <<Head(df)>> \o after

RECURSIVE sort_values(_)
\* DataFrame.sort_values(keys): ascending, missing values last.
sort_values(df) ==
    IF df = <<>> THEN <<>>
    ELSE InsertRecord(df[Len(df)], sort_values(SubSeq(df, 1, Len(df) - 1)))

\* Lines 66-71: groupby(keys, as_index=False) with the default dropna=True: a
\* partial record with a missing key component joins no group.
groupby_partials(df) ==
    LET rs == SelectSeq(df, LAMBDA r : ~HasNAKey(r))
        ks == SortKeys({KeyOf(rs[i]) : i \in 1..Len(rs)})
    IN  [ i \in 1..Len(ks) |->
            LET grp == SelectSeq(rs, LAMBDA r : KeyOf(r) = ks[i])
            IN  [ Town |-> ks[i][1], Year |-> ks[i][2],
                  PropertyType |-> ks[i][3], ResidentialType |-> ks[i][4],
                  NumSales |-> agg_sum([j \in 1..Len(grp) |-> grp[j].NumSales]),
                  MedianSale |-> agg_median([j \in 1..Len(grp) |-> grp[j].MedianSale]),
                  AvgSalesRatio |-> agg_mean([j \in 1..Len(grp) |-> grp[j].AvgSalesRatio]) ] ]

\* Lines 64-73: the global aggregate of the partial aggregates.
aggregate(frames) == sort_values(groupby_partials(concat(frames)))

\* --------------------------------------------------------------- exports
Unspecified == <<85, 110, 115, 112, 101, 99, 105, 102, 105, 101, 100>>

RES_TYPES ==
    { <<82, 101, 115, 105, 100, 101, 110, 116, 105, 97, 108>>,              \* "Residential"
      <<83, 105, 110, 103, 108, 101, 32, 70, 97, 109, 105, 108, 121>>,      \* "Single Family"
      <<84, 119, 111, 32, 70, 97, 109, 105, 108, 121>>,                     \* "Two Family"
      <<84, 104, 114, 101, 101, 32, 70, 97, 109, 105, 108, 121>>,           \* "Three Family"
      <<70, 111, 117, 114, 32, 70, 97, 109, 105, 108, 121>>,                \* "Four Family"
      <<67, 111, 110, 100, 111>>,                                           \* "Condo"
      <<65, 112, 97, 114, 116, 109, 101, 110, 116, 115>>,                   \* "Apartments"
      <<65, 112, 97, 114, 116, 109, 101, 110, 116>>,                        \* "Apartment"
      <<84, 111, 119, 110, 104, 111, 117, 115, 101>>,                       \* "Townhouse"
      <<67, 111, 45, 111, 112>>,                                            \* "Co-op"
      <<67, 111, 110, 100, 111, 109, 105, 110, 105, 117, 109>> }            \* "Condominium"

\* Mutation: the whitelist is not applied.
filter_res_all(df) == df

\* Line 85: agg[agg["Property Type"].str.strip().isin(RES_TYPES)]
filter_res(df) ==
    SelectSeq(df, LAMBDA r :
        r.PropertyType # NA /\ col_strip(r.PropertyType)[1] \in RES_TYPES)

\* Series.replace({"": "Unspecified"})
replace_blank(v) == IF v = Some(<<>>) THEN Some(Unspecified) ELSE v

\* Line 89: the Residential Type column of the by-type export.
label_res_type(df) ==
    [ i \in 1..Len(df) |->
        [df[i] EXCEPT !.ResidentialType = fillna(replace_blank(@), Some(Unspecified))] ]

\* Line 95: agg_res.drop(columns=["Residential Type"])
drop_res_type(df) ==
    [ i \in 1..Len(df) |->
        [ Town |-> df[i].Town, Year |-> df[i].Year,
          PropertyType |-> df[i].PropertyType,
          NumSales |-> df[i].NumSales, MedianSale |-> df[i].MedianSale,
          AvgSalesRatio |-> df[i].AvgSalesRatio ] ]

\* ----------------------------------------------------------------- state
VARIABLES
    file,            \* the rows of RAW: records of text cells
    CHUNK,           \* the chunksize of the read (250_000 in the script)
    pos,             \* rows of the file read so far
    partials,        \* the per-chunk aggregates
    agg,             \* the all-types aggregate, as written to OUT_ALL
    agg_res,         \* the by-type frame, as written to OUT_RES_BYTYPE
    agg_res_simple,  \* the residential-only frame, as written to OUT_RES
    pc,              \* position in the script
    town,            \* normalisation runs: a Town value
    town_once,       \*   ... after one pass of line 39
    town_twice       \*   ... after a second pass

vars == <<file, CHUNK, pos, partials, agg, agg_res, agg_res_simple, pc,
          town, town_once, town_twice>>

MkRow(t, d, ly, amt, ratio, pt, rt) ==
    [ Town |-> t, DateRecorded |-> d, ListYear |-> ly, SaleAmount |-> amt,
      SalesRatio |-> ratio, PropertyType |-> pt, ResidentialType |-> rt ]

Condo == <<67, 111, 110, 100, 111>>
Land == <<76, 97, 110, 100>>
Date2005 == <<48, 49, 47, 48, 50, 47, 50, 48, 48, 53>>     \* "01/02/2005"
BadDate == <<49, 51, 47, 52, 53, 47, 50, 48, 48, 53>>      \* "13/45/2005"

\* Rows that differ in Town, Date Recorded, List Year and Sale Amount.
KeyRows ==
    { MkRow(t, d, ly, amt, <<50>>, Condo, Condo) :
        t \in { <<>>, <<32, 97, 66, 32>>, <<65, 66>> },    \* "", " aB ", "AB"
        d \in { Date2005, BadDate },
        ly \in { <<50, 48, 48, 52>>, <<120>> },            \* "2004", "x"
        amt \in { <<49, 48, 48>>, <<120>> } }              \* "100", "x"

\* Rows that differ in Property Type, Residential Type and Sale Amount, and
\* two rows of another town.
ResRows ==
    { MkRow(<<65, 98>>, Date2005, <<>>, amt, <<50>>, pt, rt) :
        pt \in { Condo, Land },
        rt \in { <<>>, <<32>>, Unspecified, Condo },       \* "", " ", ...
        amt \in { <<49, 48, 48>>, <<51, 48, 48>> } }       \* "100", "300"
    \cup
    { MkRow(<<32, 98>>, Date2005, <<>>, <<49, 48, 48>>, <<50>>, Condo, rt) :
        rt \in { <<32>>, Condo } }

\* Rows of one group with Sale Amounts 100, 300 and unparseable, and a row of
\* another town with an unparseable Sale Amount.
AmtRows ==
    { MkRow(<<65, 98>>, Date2005, <<>>, <<49, 48, 48>>, <<49>>, Condo, Condo),
      MkRow(<<65, 98>>, Date2005, <<>>, <<51, 48, 48>>, <<50>>, Condo, Condo),
      MkRow(<<65, 98>>, Date2005, <<>>, <<120>>, <<52>>, Condo, Condo),
      MkRow(<<66>>, Date2005, <<>>, <<120>>, <<52>>, Condo, Condo) }

\* The model's Town alphabet: space, hyphen, A, a, b, U+01F0, U+030C.
TownChars == { 32, 45, 65, 97, 98, 496, 780 }

SeqsUpTo(S, n) == UNION { [1..k -> S] : k \in 0..n }

\* A file of at least one row: on a file with a header only the read loop
\* yields no chunk and pd.concat raises.
InitPipeline(rows, n) ==
    /\ file \in (SeqsUpTo(rows, n) \ { <<>> })
    /\ CHUNK \in 1..n
    /\ pos = 0
    /\ partials = <<>>
    /\ agg = <<>>
    /\ agg_res = <<>>
    /\ agg_res_simple = <<>>
    /\ pc = "read"
    /\ town = NA /\ town_once = NA /\ town_twice = NA

Init == InitPipeline(KeyRows, MaxRows)
InitRes == InitPipeline(ResRows, MaxRows)
InitAmt == InitPipeline(AmtRows, MaxRowsAmt)

InitTown ==
    /\ town \in { NA } \cup { Some(t) : t \in SeqsUpTo(TownChars, MaxLen) }
    /\ town_once = NA /\ town_twice = NA
    /\ pc = "town"
    /\ file = <<>> /\ CHUNK = 1 /\ pos = 0 /\ partials = <<>>
    /\ agg = <<>> /\ agg_res = <<>> /\ agg_res_simple = <<>>

\* Lines 61-62: one iteration of the read loop.
ReadChunk ==
    /\ pc = "read"
    /\ pos < Len(file)
    /\ partials' = Append(partials, tidy_chunk(read_chunk(file, pos, CHUNK)))
    /\ pos' = Min(pos + CHUNK, Len(file))
    /\ UNCHANGED <<file, CHUNK, agg, agg_res, agg_res_simple, pc,
                   town, town_once, town_twice>>

\* Lines 64-77: the global aggregate and the all-types export.
Aggregate ==
    /\ pc = "read"
    /\ pos = Len(file)
    /\ agg' = aggregate(partials)
    /\ pc' = "bytype"
    /\ UNCHANGED <<file, CHUNK, pos, partials, agg_res, agg_res_simple,
                   town, town_once, town_twice>>

\* Lines 85-90: the whitelist filter and the by-type export.
ExportByType ==
    /\ pc = "bytype"
    /\ agg_res' = label_res_type(filter_res(agg))
    /\ pc' = "simple"
    /\ UNCHANGED <<file, CHUNK, pos, partials, agg, agg_res_simple,
                   town, town_once, town_twice>>

\* Lines 94-96: the residential-only export.
ExportSimple ==
    /\ pc = "simple"
    /\ agg_res_simple' = drop_res_type(agg_res)
    /\ pc' = "done"
    /\ UNCHANGED <<file, CHUNK, pos, partials, agg, agg_res,
                   town, town_once, town_twice>>

Next == ReadChunk \/ Aggregate \/ ExportByType \/ ExportSimple

Spec == Init /\ [][Next]_vars
SpecRes == InitRes /\ [][Next]_vars
SpecAmt == InitAmt /\ [][Next]_vars

\* Line 39 applied to a Town value.
TownOnce ==
    /\ pc = "town"
    /\ town_once' = NormalizeTown(town)
    /\ pc' = "once"
    /\ UNCHANGED <<file, CHUNK, pos, partials, agg, agg_res, agg_res_simple,
                   town, town_twice>>

\* Line 39 applied to its own result.
TownTwice ==
    /\ pc = "once"
    /\ town_twice' = NormalizeTown(town_once)
    /\ pc' = "twice"
    /\ UNCHANGED <<file, CHUNK, pos, partials, agg, agg_res, agg_res_simple,
                   town, town_once>>

NextTown == TownOnce \/ TownTwice

SpecTown == InitTown /\ [][NextTown]_vars

\* ---------------------------------------------------------------- claims
\* The whole file as read_csv parses it, and its rows after lines 29-43.
FileRows == read_chunk(file, 0, Len(file))
CleanRows == dropna([j \in 1..Len(FileRows) |-> tidy_row(FileRows[j])])

CountRows(df, P(_)) == Cardinality({ j \in 1..Len(df) : P(df[j]) })

\* C1: every record of the all-types export has NumSales equal to the number
\* of input rows that survive cleaning with the record's cleaned key, and the
\* NumSales of all records add up to the number of surviving rows, for every
\* chunk size.
C1_NumSalesCountsCleanRows ==
    pc = "done" =>
        /\ \A i \in 1..Len(agg) :
              agg[i].NumSales = CountRows(CleanRows, LAMBDA r : KeyOf(r) = KeyOf(agg[i]))
        /\ IntSum([i \in 1..Len(agg) |-> agg[i].NumSales]) = Len(CleanRows)

\* Two rows with different Town texts and one cleaned key, read in one chunk
\* and counted in one record.
C1_Witness ==
    /\ pc = "done"
    /\ Len(file) = 2 /\ CHUNK = 2
    /\ file[1].Town # file[2].Town
    /\ Len(agg) = 1 /\ agg[1].NumSales = 2

\* The Year that the specification assigns to a parsed row: the year of Date
\* Recorded when it parses, else List Year when it is numeric, else none.
SpecYear(r) ==
    IF to_datetime_year(r.DateRecorded) # NA THEN to_datetime_year(r.DateRecorded)
    ELSE IF to_numeric(r.ListYear) # NA THEN to_numeric(r.ListYear)
    ELSE NA

\* C10: a row is grouped under the year of Date Recorded whenever that date
\* parses, under List Year exactly when the date does not parse and List Year
\* is numeric, and under no year otherwise.
C10_YearPrefersDateRecorded ==
    pc = "done" =>
        \A i \in 1..Len(agg) :
            agg[i].NumSales =
                CountRows(FileRows, LAMBDA r :
                    /\ to_numeric(r.SaleAmount) # NA
                    /\ SpecYear(r) # NA
                    /\ <<NormalizeTown(r.Town), SpecYear(r), NormalizeType(r.PropertyType),
                         NormalizeType(r.ResidentialType)>> = KeyOf(agg[i]))

\* A row whose date parses (2005) and whose List Year differs (2004), and a
\* row whose date does not parse and whose List Year is 2004: two records.
C10_Witness ==
    /\ pc = "done"
    /\ Len(file) = 2
    /\ to_datetime_year(FileRows[1].DateRecorded) = Some(2005)
    /\ to_numeric(FileRows[1].ListYear) = Some(2004)
    /\ to_datetime_year(FileRows[2].DateRecorded) = NA
    /\ to_numeric(FileRows[2].ListYear) = Some(2004)
    /\ FileRows[1].Town = FileRows[2].Town
    /\ Len(agg) = 2
    /\ agg[1].Year = Some(2004) /\ agg[2].Year = Some(2005)

\* C5: a row that is missing Town, or for which no Year can be derived,
\* contributes to no record, and no record has a Town or Year that stands for
\* a missing value.
C5_MissingTownOrYearDropped ==
    pc = "done" =>
        /\ \A i \in 1..Len(agg) :
              /\ agg[i].Town \notin { NA, Some(<<110, 97, 110>>), Some(<<78, 97, 110>>) }
              /\ agg[i].Year # NA
        /\ IntSum([i \in 1..Len(agg) |-> agg[i].NumSales]) =
              CountRows(FileRows, LAMBDA r :
                  r.Town # NA /\ SpecYear(r) # NA /\ to_numeric(r.SaleAmount) # NA)

\* The script run on a file of the given rows with the given chunk size, up
\* to the all-types aggregate.
NumChunks(rows, n) == (Len(rows) + n - 1) \div n
RunAgg(rows, n) ==
    aggregate([k \in 1..NumChunks(rows, n) |-> tidy_chunk(read_chunk(rows, (k - 1) * n, n))])

Parseable(raw) == to_numeric(read_cell(raw.SaleAmount)) # NA
GoodRows(rows) == SelectSeq(rows, Parseable)

\* The chunks of the file as read, each without its rows whose Sale Amount
\* does not parse.
GoodChunks ==
    [ k \in 1..NumChunks(file, CHUNK) |->
        LET lo == (k - 1) * CHUNK
            hi == Min(lo + CHUNK, Len(file))
        IN  GoodRows(SubSeq(file, lo + 1, hi)) ]

AggOfGoodChunks ==
    aggregate([k \in 1..Len(GoodChunks) |-> tidy_chunk(read_chunk(GoodChunks[k], 0, Len(GoodChunks[k])))])

Counts(df) == { <<KeyOf(df[i]), df[i].NumSales>> : i \in 1..Len(df) }

\* C2 as stated: removing every row whose Sale Amount does not parse from the
\* input leaves every record of the three exports unchanged.
C2_RemovingBadRowsFromInput ==
    (pc = "done" /\ GoodRows(file) # <<>>) =>
        LET ref == RunAgg(GoodRows(file), CHUNK)
        IN  /\ agg = ref
            /\ agg_res = label_res_type(filter_res(ref))
            /\ agg_res_simple = drop_res_type(label_res_type(filter_res(ref)))

\* C2 as amended: removing every row whose Sale Amount does not parse from the
\* chunk it was read in leaves every record of the three exports unchanged, no
\* record exists only because of such rows, and removing them from the input
\* leaves the keys and the NumSales of the all-types export unchanged.
C2_RemovingBadRowsFromChunks ==
    pc = "done" =>
        /\ agg = AggOfGoodChunks
        /\ agg_res = label_res_type(filter_res(AggOfGoodChunks))
        /\ agg_res_simple = drop_res_type(label_res_type(filter_res(AggOfGoodChunks)))
        /\ \A i \in 1..Len(agg) :
              \E j \in 1..Len(file) :
                  /\ Parseable(file[j])
                  /\ KeyOf(tidy_row(read_row(file[j]))) = KeyOf(agg[i])
        /\ GoodRows(file) # <<>> => Counts(agg) = Counts(RunAgg(GoodRows(file), CHUNK))

\* Four rows in two chunks, the second row unparseable, and the record of the
\* three others differs from the one of the input without the second row.
C2_Witness ==
    /\ pc = "done"
    /\ Len(file) = 4 /\ CHUNK = 2
    /\ ~Parseable(file[2])
    /\ Parseable(file[1]) /\ Parseable(file[3]) /\ Parseable(file[4])
    /\ Len(agg) = 1 /\ agg[1].NumSales = 3
    /\ agg # RunAgg(GoodRows(file), CHUNK)

Key3(r) == <<r.Town, r.Year, r.PropertyType>>

\* The indices of the rows of df with the (Town, Year, Property Type) k.
RowsOf3(df, k) == { j \in 1..Len(df) : Key3(df[j]) = k }

\* (a+b)/2 for the Sale Amounts a and b of the two rows S of df.
HalfSum(df, S) ==
    LET j1 == CHOOSE j \in S : TRUE
        j2 == CHOOSE j \in S : j # j1
    IN  Some(FDiv(FAdd(df[j1].SaleAmount[1], df[j2].SaleAmount[1]), 2))

\* C3 as stated: when exactly two rows survive with a (Town, Year, Property
\* Type), the all-types export holds one record of that group, with MedianSale
\* (a+b)/2, whatever the chunks and the Residential Types.
C3_MedianOfTwoAnyResidentialType ==
    pc = "done" =>
        LET clean == CleanRows
        IN  \A k \in { Key3(clean[j]) : j \in 1..Len(clean) } :
                LET S == RowsOf3(clean, k)
                IN  Cardinality(S) = 2 =>
                       /\ Cardinality({ i \in 1..Len(agg) : Key3(agg[i]) = k }) = 1
                       /\ \A i \in 1..Len(agg) :
                             Key3(agg[i]) = k => agg[i].MedianSale = HalfSum(clean, S)

\* C3 as amended: the same, provided the two rows have the same cleaned
\* Residential Type; the residential-only export then holds that one record
\* too when the Property Type is whitelisted.
C3_MedianOfTwoSameResidentialType ==
    pc = "done" =>
        LET clean == CleanRows
        IN  \A k \in { Key3(clean[j]) : j \in 1..Len(clean) } :
                LET S == RowsOf3(clean, k)
                IN  (Cardinality(S) = 2 /\ \A a, b \in S : KeyOf(clean[a]) = KeyOf(clean[b])) =>
                       /\ Cardinality({ i \in 1..Len(agg) : Key3(agg[i]) = k }) = 1
                       /\ \A i \in 1..Len(agg) :
                             Key3(agg[i]) = k => agg[i].MedianSale = HalfSum(clean, S)
                       /\ k[3][1] \in RES_TYPES =>
                             /\ Cardinality({ i \in 1..Len(agg_res_simple) :
                                                Key3(agg_res_simple[i]) = k }) = 1
                             /\ \A i \in 1..Len(agg_res_simple) :
                                   Key3(agg_res_simple[i]) = k =>
                                       agg_res_simple[i].MedianSale = HalfSum(clean, S)

\* Sale Amounts 100 and 300 of one group read in two chunks: MedianSale 200.
C3_Witness ==
    /\ pc = "done"
    /\ Len(file) = 2 /\ CHUNK = 1 /\ Len(partials) = 2
    /\ file[1].SaleAmount = <<49, 48, 48>> /\ file[2].SaleAmount = <<51, 48, 48>>
    /\ Len(agg) = 1
    /\ agg[1].NumSales = 2
    /\ agg[1].MedianSale = Some(<<200, 1>>)

Whitelisted(r) == r.PropertyType # NA /\ r.PropertyType[1] \in RES_TYPES

\* A record of the all-types export and one without the Residential Type
\* column that agree on every other column.
SameButResidentialType(a, s) ==
    /\ a.Town = s.Town /\ a.Year = s.Year /\ a.PropertyType = s.PropertyType
    /\ a.NumSales = s.NumSales /\ a.MedianSale = s.MedianSale
    /\ a.AvgSalesRatio = s.AvgSalesRatio

\* C4: every record of the residential-only export has a whitelisted Property
\* Type and is an all-types record without its Residential Type, every
\* whitelisted all-types record appears in it, and the by-type export holds
\* whitelisted records only.
C4_ResidentialIsWhitelistedSubset ==
    pc = "done" =>
        /\ \A i \in 1..Len(agg_res_simple) :
              /\ Whitelisted(agg_res_simple[i])
              /\ \E j \in 1..Len(agg) : SameButResidentialType(agg[j], agg_res_simple[i])
        /\ \A j \in 1..Len(agg) :
              Whitelisted(agg[j]) =>
                  \E i \in 1..Len(agg_res_simple) :
                      SameButResidentialType(agg[j], agg_res_simple[i])
        /\ \A i \in 1..Len(agg_res) : Whitelisted(agg_res[i])

\* A whitelisted and a non-whitelisted record in the all-types export, and
\* only the first in the residential exports.
C4_Witness ==
    /\ pc = "done"
    /\ Len(agg) = 2 /\ Len(agg_res) = 1 /\ Len(agg_res_simple) = 1
    /\ \E j \in 1..2 : ~Whitelisted(agg[j])

Blank(v) == v = NA \/ str_strip(v[1]) = <<>>

\* C6: in the by-type export no record has a Residential Type that is empty
\* or stands for a missing value, and every whitelisted surviving row whose
\* Residential Type is missing or blank is counted under "Unspecified".
C6_MissingResidentialTypeIsUnspecified ==
    pc = "done" =>
        /\ \A i \in 1..Len(agg_res) :
              agg_res[i].ResidentialType \notin { NA, Some(<<>>), Some(<<110, 97, 110>>) }
        /\ \A j \in 1..Len(FileRows) :
              LET r == tidy_row(FileRows[j])
              IN  (Blank(FileRows[j].ResidentialType) /\ Whitelisted(r)
                   /\ r.Year # NA /\ r.SaleAmount # NA) =>
                      \E i \in 1..Len(agg_res) :
                          /\ Key3(agg_res[i]) = Key3(r)
                          /\ agg_res[i].ResidentialType = Some(Unspecified)

NonDecreasing(df, n) ==
    \A i, j \in 1..Len(df) : i < j => ~KeyLessN(KeyOf(df[j]), KeyOf(df[i]), n)

Key3As4(r) == <<r.Town, r.Year, r.PropertyType, NA>>
NonDecreasing3(df) ==
    \A i, j \in 1..Len(df) : i < j => ~KeyLessN(Key3As4(df[j]), Key3As4(df[i]), 3)

\* The keys of the all-types export depend on the set of surviving keys only.
KeysFromSet ==
    LET ks == SortKeys({ KeyOf(CleanRows[j]) : j \in 1..Len(CleanRows) })
    IN  /\ Len(agg) = Len(ks)
        /\ \A i \in 1..Len(ks) : KeyOf(agg[i]) = ks[i]

\* C7 as stated: each export is in non-decreasing order of its key columns as
\* written, independent of the order and the chunking of the input.
C7_ExportsSortedAsWritten ==
    pc = "done" =>
        /\ NonDecreasing(agg, 4)
        /\ NonDecreasing(agg_res, 4)
        /\ NonDecreasing3(agg_res_simple)
        /\ KeysFromSet

\* C7 as amended: the all-types export is sorted by its four key columns and
\* the residential-only export by its three, as written; the by-type export
\* keeps the order of the whitelisted all-types records, that is, the order of
\* the Residential Type before "" is relabelled "Unspecified".
C7_ExportsInAggregateOrder ==
    pc = "done" =>
        /\ NonDecreasing(agg, 4)
        /\ NonDecreasing3(agg_res_simple)
        /\ KeysFromSet
        /\ LET w == SelectSeq(agg, Whitelisted)
           IN  /\ Len(agg_res) = Len(w)
               /\ \A i \in 1..Len(w) :
                     /\ SameButResidentialType(w[i], agg_res[i])
                     /\ agg_res[i].ResidentialType =
                           IF w[i].ResidentialType \in { NA, Some(<<>>) }
                           THEN Some(Unspecified) ELSE w[i].ResidentialType

\* Two whitelisted rows read in descending key order in two chunks, the
\* second with a blank Residential Type that is relabelled in the by-type
\* export.
C7_Witness ==
    /\ pc = "done"
    /\ Len(file) = 2 /\ CHUNK = 1
    /\ Len(agg) = 2 /\ Len(agg_res) = 2
    /\ KeyOf(partials[2][1]) = KeyOf(agg[1])
    /\ agg[1].ResidentialType = Some(<<>>)
    /\ agg_res[1].ResidentialType = Some(Unspecified)

NoDuplicateKeys(df, K(_)) ==
    \A i, j \in 1..Len(df) : K(df[i]) = K(df[j]) => i = j

\* C9: the all-types and by-type exports hold at most one record per (Town,
\* Year, Property Type, Residential Type) as written, the residential-only
\* export at most one per (Town, Year, Property Type).
C9_OneRecordPerKey ==
    pc = "done" =>
        /\ NoDuplicateKeys(agg, KeyOf)
        /\ NoDuplicateKeys(agg_res, KeyOf)
        /\ NoDuplicateKeys(agg_res_simple, Key3)

IsASCII(v) == v = NA \/ \A i \in 1..Len(v[1]) : v[1][i] < 128

\* C8 as stated: normalising a normalised Town gives the same Town, for
\* every Town.
C8_NormalizeIdempotent == pc = "twice" => town_twice = town_once

\* C8 as amended: the same, for every Town of ASCII characters (and for a
\* missing Town).
C8_NormalizeIdempotentASCII == (pc = "twice" /\ IsASCII(town)) => town_twice = town_once

\* " ab" is normalised to "Ab", and "Ab" to itself.
C8_Witness ==
    /\ pc = "twice"
    /\ town = Some(<<32, 97, 98>>)
    /\ town_once = Some(<<65, 98>>)
    /\ town_twice = Some(<<65, 98>>)

====
